---- MODULE Spec2Model ----
(***************************************************************************)
(* Model of the simulation tick of server/src/sim/tick.ts together with    *)
(* calculateWarmth of ./metrics.                                           *)
(*                                                                         *)
(* Numbers.  The program computes with IEEE doubles.  The model computes   *)
(* in fixed point: the integer n stands for n / SCALE, so 1.0 is 10000 and *)
(* calculateWarmth's epsilon (0.0001) is 1.  A product with a decimal      *)
(* literal of the source (x * 0.6) is (x * 6) \div 10, rounded towards     *)
(* minus infinity.  Math.log is computed by LnRaw to within 10 units.      *)
(*                                                                         *)
(* Variables.  state is the SimulationState; locals records the latest     *)
(* call of tickSimulation; hookLog the hook calls of that call; installed  *)
(* the hooks object the server passes; submitted counts the actions handed *)
(* in so far; spawned lists the id of every event spawned so far.          *)
(***************************************************************************)
EXTENDS Integers, Sequences, FiniteSets, TLC

VARIABLES state, locals, hookLog, submitted, installed, spawned

vars == <<state, locals, hookLog, submitted, installed, spawned>>

----------------------------------------------------------------------------
(* Bounds of the model *)

MaxTick == 2
MaxActions == 2

----------------------------------------------------------------------------
(* Fixed point *)

SCALE == 10000

MIN_UTILIZATION == 0
MAX_UTILIZATION == 10000

Max(a, b) == IF a >= b THEN a ELSE b
Min(a, b) == IF a <= b THEN a ELSE b

clamp(value, min, max) == Min(max, Max(min, value))

RECURSIVE Log2Floor(_)
Log2Floor(n) == IF n < 2 THEN 0 ELSE 1 + Log2Floor(n \div 2)

RECURSIVE Pow2(_)
Pow2(k) == IF k = 0 THEN 1 ELSE 2 * Pow2(k - 1)

(* SCALE * ln(n) for an integer n >= 1: n = 2^k * m with 1 <= m < 2,       *)
(* ln(n) = k ln 2 + 2 atanh((m-1)/(m+1)), the series cut after z^7/7.      *)
LnRaw(n) ==
    LET k  == Log2Floor(n)
        p  == Pow2(k)
        z  == ((n - p) * SCALE) \div (n + p)
        z2 == (z * z) \div SCALE
        z3 == (z * z2) \div SCALE
        z5 == (z3 * z2) \div SCALE
        z7 == (z5 * z2) \div SCALE
    IN  (k * 693147) \div 100 + 2 * (z + z3 \div 3 + z5 \div 5 + z7 \div 7)

(* Math.log((gain + epsilon) / (cost + epsilon)) - k, with                 *)
(* ln(a / b) = ln a - ln b.  Both arguments are >= epsilon in every state  *)
(* the model reaches (gain >= 0, cost >= 0).                               *)
calculateWarmth(gain, cost) ==
    LET epsilon == 1
        k == 1000
    IN  (LnRaw(gain + epsilon) - LnRaw(cost + epsilon)) - k

----------------------------------------------------------------------------
(* Inputs *)

(* An optional harmony is a sequence: empty when the field is absent. *)
NoHarmony == <<>>

AllocTargets == {"mito", "chloro", "ghost"}
Deltas == {-12000, 7000}
Harmonies == {NoHarmony, <<-1000>>, <<15000>>}
Players == {"p1"}

PlayerAllocation == [organelle : AllocTargets, utilization : Deltas]

(* An optional allocations list is the empty sequence when absent: the    *)
(* code reads it as action.allocations ?? [].                             *)
AllocationLists == {<<>>} \cup {<<a>> : a \in PlayerAllocation}

PlayerAction ==
    [playerId : Players,
     allocations : AllocationLists,
     harmony : Harmonies]

HookNames == {"persist", "broadcast"}

(* Inputs of the allocation specification: longer allocation lists over a *)
(* smaller alphabet, two sizes of non-negative delta on a known organelle *)
(* and one allocation that names an organelle the world does not have.    *)
MaxAllocs == 2

AllocationsForOrder ==
    [organelle : {"mito"}, utilization : {3000, 7000}]
        \cup [organelle : {"ghost"}, utilization : {7000}]

RECURSIVE SeqsUpTo(_, _)
SeqsUpTo(S, n) ==
    IF n = 0 THEN {<<>>}
    ELSE LET shorter == SeqsUpTo(S, n - 1)
         IN  shorter \cup {Append(q, x) : q \in shorter, x \in S}

AllocationActions ==
    [playerId : Players,
     allocations : SeqsUpTo(AllocationsForOrder, MaxAllocs),
     harmony : {NoHarmony}]

----------------------------------------------------------------------------
(* The steps of a tick *)

collectPlayerActions(s) == s.pendingActions

(* applyAllocations adding the delta without clamping the result. *)
RECURSIVE applyAllocationList_unclamped(_, _)
applyAllocationList_unclamped(organelles, allocations) ==
    IF allocations = <<>> THEN organelles
    ELSE LET allocation == Head(allocations)
             next ==
                 IF allocation.organelle \notin DOMAIN organelles
                 THEN organelles
                 ELSE [organelles EXCEPT ![allocation.organelle].utilization =
                          @ + allocation.utilization]
         IN  applyAllocationList_unclamped(next, Tail(allocations))

(* applyAllocations leaving the allocation loop at an unknown organelle   *)
(* (break for continue).                                                  *)
RECURSIVE applyAllocationList_stopAtUnknown(_, _)
applyAllocationList_stopAtUnknown(organelles, allocations) ==
    IF allocations = <<>> THEN organelles
    ELSE LET allocation == Head(allocations)
         IN  IF allocation.organelle \notin DOMAIN organelles
             THEN organelles
             ELSE applyAllocationList_stopAtUnknown(
                      [organelles EXCEPT ![allocation.organelle].utilization =
                          clamp(@ + allocation.utilization,
                                MIN_UTILIZATION, MAX_UTILIZATION)],
                      Tail(allocations))

(* applyAllocations assigning the delta instead of adding it. *)
RECURSIVE applyAllocationList_assigning(_, _)
applyAllocationList_assigning(organelles, allocations) ==
    IF allocations = <<>> THEN organelles
    ELSE LET allocation == Head(allocations)
             next ==
                 IF allocation.organelle \notin DOMAIN organelles
                 THEN organelles
                 ELSE [organelles EXCEPT ![allocation.organelle].utilization =
                          clamp(allocation.utilization,
                                MIN_UTILIZATION, MAX_UTILIZATION)]
         IN  applyAllocationList_assigning(next, Tail(allocations))

(* applyAllocations writing the clamped sum to capacity. *)
RECURSIVE applyAllocationList_wrongField(_, _)
applyAllocationList_wrongField(organelles, allocations) ==
    IF allocations = <<>> THEN organelles
    ELSE LET allocation == Head(allocations)
             next ==
                 IF allocation.organelle \notin DOMAIN organelles
                 THEN organelles
                 ELSE [organelles EXCEPT ![allocation.organelle].capacity =
                          clamp(organelles[allocation.organelle].utilization
                                   + allocation.utilization,
                                MIN_UTILIZATION, MAX_UTILIZATION)]
         IN  applyAllocationList_wrongField(next, Tail(allocations))

RECURSIVE applyAllocationList(_, _)
applyAllocationList(organelles, allocations) ==
    IF allocations = <<>> THEN organelles
    ELSE LET allocation == Head(allocations)
             next ==
                 IF allocation.organelle \notin DOMAIN organelles
                 THEN organelles
                 ELSE [organelles EXCEPT ![allocation.organelle].utilization =
                          clamp(@ + allocation.utilization,
                                MIN_UTILIZATION, MAX_UTILIZATION)]
         IN  applyAllocationList(next, Tail(allocations))

RECURSIVE applyAllocationsTo(_, _)
applyAllocationsTo(organelles, actions) ==
    IF actions = <<>> THEN organelles
    ELSE applyAllocationsTo(
             applyAllocationList(organelles, Head(actions).allocations),
             Tail(actions))

applyAllocations(s, actions) ==
    [s EXCEPT !.organelles = applyAllocationsTo(s.organelles, actions)]

organelleOutput(organelle) ==
    (((organelle.capacity * organelle.efficiency) \div SCALE)
        * organelle.utilization) \div SCALE

nutrientShare(organelle) == (organelleOutput(organelle) * 6) \div 10

(* The flows accumulated over the organelles named in ids. *)
RECURSIVE addFlows(_, _)
addFlows(organelles, ids) ==
    IF ids = {} THEN [energy |-> 0, nutrients |-> 0]
    ELSE LET id == CHOOSE x \in ids : TRUE
             rest == addFlows(organelles, ids \ {id})
         IN  [energy    |-> rest.energy + organelleOutput(organelles[id]),
              nutrients |-> rest.nutrients - nutrientShare(organelles[id])]

computeResourceFlows(s) == addFlows(s.organelles, DOMAIN s.organelles)

RECURSIVE utilizationLoadOf(_, _)
utilizationLoadOf(organelles, ids) ==
    IF ids = {} THEN 0
    ELSE LET id == CHOOSE x \in ids : TRUE
         IN  organelles[id].utilization + utilizationLoadOf(organelles, ids \ {id})

(* computeStrain reading the nutrients after they were clamped to >= 0. *)
computeStrain_afterClamp(s, flows) ==
    LET projectedNutrients == Max(0, s.resources.nutrients + flows.nutrients)
        nutrientDebt == Max(0, 0 - projectedNutrients)
        utilizationLoad == utilizationLoadOf(s.organelles, DOMAIN s.organelles)
    IN  (s.strain * 6) \div 10 + (nutrientDebt * 4) \div 10
            + (utilizationLoad * 2) \div 10

computeStrain(s, flows) ==
    LET projectedNutrients == s.resources.nutrients + flows.nutrients
        nutrientDebt == Max(0, 0 - projectedNutrients)
        utilizationLoad == utilizationLoadOf(s.organelles, DOMAIN s.organelles)
    IN  (s.strain * 6) \div 10 + (nutrientDebt * 4) \div 10
            + (utilizationLoad * 2) \div 10

(* computeGainCost leaving the nutrient flow out of the cost. *)
computeGainCost_strainOnly(flows, strain) ==
    [gain |-> Max(0, flows.energy),
     cost |-> (strain * 5) \div 10]

computeGainCost(flows, strain) ==
    [gain |-> Max(0, flows.energy),
     cost |-> Max(0, 0 - flows.nutrients) + (strain * 5) \div 10]

harmonyOf(action) == IF action.harmony = NoHarmony THEN 0 ELSE action.harmony[1]

RECURSIVE harmonySum(_)
harmonySum(actions) ==
    IF actions = <<>> THEN 0
    ELSE harmonyOf(Head(actions)) + harmonySum(Tail(actions))

impactOf(event, field) ==
    IF field \in DOMAIN event.impact THEN event.impact[field] ELSE 0

RECURSIVE coherenceImpactSum(_)
coherenceImpactSum(events) ==
    IF events = <<>> THEN 0
    ELSE impactOf(Head(events), "coherence") + coherenceImpactSum(Tail(events))

averageHarmony(actions) ==
    IF Len(actions) # 0
    THEN harmonySum(actions) \div Len(actions)
    ELSE 0

eventBonus(events) == coherenceImpactSum(events)

(* computeCoherence returning the sum without clamping it. *)
computeCoherence_unclamped(actions, events) ==
    averageHarmony(actions) + eventBonus(events)

computeCoherence(actions, events) ==
    clamp(averageHarmony(actions) + eventBonus(events), 0, SCALE)

(* updateStability reading state.strain, the strain of the previous tick. *)
updateStability_staleStrain(s, strain, coherence) ==
    LET base == s.metrics.stability
        next == base + (coherence * 4) \div 10 - (s.strain * 3) \div 10
    IN  clamp(next, 0, SCALE)

updateStability(s, strain, coherence) ==
    LET base == s.metrics.stability
        next == base + (coherence * 4) \div 10 - (strain * 3) \div 10
    IN  clamp(next, 0, SCALE)

updateBlah(metrics, current) ==
    LET target == (metrics.warmth + metrics.stability + metrics.coherence) \div 3
    IN  current + ((target - current) * 2) \div 10

(* The anomaly event with an id that leaves out the tick number. *)
anomalyEvent_untimed(t) ==
    [id |-> <<"anomaly", 0>>, type |-> "anomaly",
     impact |-> [stability |-> -2000, energy |-> -20000]]

(* An event id is the string "<type>-<tick>"; the model keeps it as the   *)
(* pair <<type, tick>>, which determines the string and is determined by  *)
(* it (no type contains a hyphen or a digit).                             *)
anomalyEvent(t) ==
    [id |-> <<"anomaly", t>>, type |-> "anomaly",
     impact |-> [stability |-> -2000, energy |-> -20000]]

festivalEvent(t) ==
    [id |-> <<"festival", t>>, type |-> "festival",
     impact |-> [coherence |-> 1000, energy |-> 10000]]

repairEvent(t) ==
    [id |-> <<"repair", t>>, type |-> "repair",
     impact |-> [nutrients |-> 20000, stability |-> 1000]]

anomalyTrigger(s) == s.strain > 15000

(* The festival trigger with >= for >. *)
festivalTrigger_inclusive(s) == s.metrics.coherence >= 7000

festivalTrigger(s) == s.metrics.coherence > 7000

(* The repair trigger firing only when nutrients are used up. *)
repairTrigger_whenEmpty(s) == s.resources.nutrients <= 0

repairTrigger(s) == s.resources.nutrients < 10000

(* maybeSpawnEvents with else-if: only the first trigger that holds. *)
maybeSpawnEvents_exclusive(s) ==
    IF anomalyTrigger(s) THEN <<anomalyEvent(s.tick)>>
    ELSE IF festivalTrigger(s) THEN <<festivalEvent(s.tick)>>
    ELSE IF repairTrigger(s) THEN <<repairEvent(s.tick)>>
    ELSE <<>>

maybeSpawnEvents(s) ==
    (IF anomalyTrigger(s) THEN <<anomalyEvent(s.tick)>> ELSE <<>>)
    \o (IF festivalTrigger(s) THEN <<festivalEvent(s.tick)>> ELSE <<>>)
    \o (IF repairTrigger(s) THEN <<repairEvent(s.tick)>> ELSE <<>>)

(* applyEvents leaving coherence to computeCoherence: the coherence impact *)
(* is not added a second time.                                            *)
applyEvent_coherenceOnce(s, event) ==
    LET e == impactOf(event, "energy")
        n == impactOf(event, "nutrients")
        b == impactOf(event, "stability")
        s1 == IF e # 0 THEN [s EXCEPT !.resources.energy = @ + e] ELSE s
        s2 == IF n # 0 THEN [s1 EXCEPT !.resources.nutrients = @ + n] ELSE s1
    IN  IF b # 0
        THEN [s2 EXCEPT !.metrics.stability = clamp(@ + b, 0, SCALE)]
        ELSE s2

applyEvent(s, event) ==
    LET e == impactOf(event, "energy")
        n == impactOf(event, "nutrients")
        c == impactOf(event, "coherence")
        b == impactOf(event, "stability")
        s1 == IF e # 0 THEN [s EXCEPT !.resources.energy = @ + e] ELSE s
        s2 == IF n # 0 THEN [s1 EXCEPT !.resources.nutrients = @ + n] ELSE s1
        s3 == IF c # 0
              THEN [s2 EXCEPT !.metrics.coherence = clamp(@ + c, 0, SCALE)]
              ELSE s2
    IN  IF b # 0
        THEN [s3 EXCEPT !.metrics.stability = clamp(@ + b, 0, SCALE)]
        ELSE s3

RECURSIVE applyEventList(_, _)
applyEventList(s, events) ==
    IF events = <<>> THEN s
    ELSE applyEventList(applyEvent(s, Head(events)), Tail(events))

(* applyEvents appending to activeEvents instead of replacing it. *)
applyEvents_appending(s, events) ==
    [applyEventList(s, events) EXCEPT !.activeEvents = @ \o events]

applyEvents(s, events) ==
    [applyEventList(s, events) EXCEPT !.activeEvents = events]

(* The tier condition without its warmth half. *)
tierCondition_stabilityOnly(s) == s.metrics.stability > 7500

tierCondition(s) == s.metrics.stability > 7500 /\ s.metrics.warmth > 5000

maybeProgressTier(s) ==
    IF tierCondition(s) THEN [s EXCEPT !.tier = @ + 1] ELSE s

consumeFlows(s, flows) ==
    [s EXCEPT !.resources.energy = Max(0, @ + flows.energy),
              !.resources.nutrients = Max(0, @ + flows.nutrients)]

(* The tick leaving pendingActions as it found them. *)
clearPending_kept(s) == s

clearPending(s) == [s EXCEPT !.pendingActions = <<>>]

(* The tick counter advanced twice. *)
advanceTick_twice(s) == [s EXCEPT !.tick = @ + 2]

advanceTick(s) == [s EXCEPT !.tick = @ + 1]

(* The hooks called in the order broadcast, persist. *)
callHooks_swapped(s, hooks) ==
    (IF "broadcast" \in hooks THEN <<[hook |-> "broadcast", state |-> s]>> ELSE <<>>)
    \o (IF "persist" \in hooks THEN <<[hook |-> "persist", state |-> s]>> ELSE <<>>)

callHooks(s, hooks) ==
    (IF "persist" \in hooks THEN <<[hook |-> "persist", state |-> s]>> ELSE <<>>)
    \o (IF "broadcast" \in hooks THEN <<[hook |-> "broadcast", state |-> s]>> ELSE <<>>)

(* The ids of the events of a tick, in the order they were pushed. *)
eventIds(events) == [i \in 1..Len(events) |-> events[i].id]

(* One run of tickSimulation from s: the returned state, the hook calls it *)
(* makes, and a record of the call: the state at entry, the function's     *)
(* locals, the resources after consumeFlows and the metrics as computed    *)
(* before applyEvents.                                                     *)
tickSimulation(s, hooks) ==
    LET actions == collectPlayerActions(s)
        s1 == applyAllocations(s, actions)
        flows == computeResourceFlows(s1)
        strain == computeStrain(s1, flows)
        s2 == consumeFlows(s1, flows)
        gc == computeGainCost(flows, strain)
        s3 == [s2 EXCEPT !.metrics.warmth = calculateWarmth(gc.gain, gc.cost)]
        events == maybeSpawnEvents(s3)
        s4 == [s3 EXCEPT !.metrics.coherence = computeCoherence(actions, events)]
        s5 == [s4 EXCEPT !.metrics.stability =
                  updateStability(s4, strain, s4.metrics.coherence)]
        s6 == [s5 EXCEPT !.strain = strain]
        s7 == [s6 EXCEPT !.blah = updateBlah(s6.metrics, s6.blah)]
        s8 == applyEvents(s7, events)
        s9 == maybeProgressTier(s8)
        s10 == clearPending(s9)
        s11 == advanceTick(s10)
    IN  [state |-> s11,
         locals |-> [called |-> TRUE, entry |-> s,
                     actions |-> actions, flows |-> flows, strain |-> strain,
                     gain |-> gc.gain, cost |-> gc.cost, events |-> events,
                     consumed |-> s2.resources,
                     computed |-> s7.metrics,
                     hooks |-> hooks],
         calls |-> callHooks(s11, hooks)]

----------------------------------------------------------------------------
(* The state machine *)

NoLocals == [called |-> FALSE]

InitOrganelles ==
    {[mito   |-> [capacity |-> 20000, efficiency |-> 10000, utilization |-> 0],
      chloro |-> [capacity |-> 10000, efficiency |-> 5000, utilization |-> 0]]}

InitState ==
    /\ state \in
         [tick : {0}, tier : {0},
          metrics : [warmth : {0}, coherence : {0}, stability : {6500}],
          resources : [energy : {0}, nutrients : {0, 30000}],
          organelles : InitOrganelles,
          strain : {0, 20000},
          blah : {0},
          pendingActions : {<<>>},
          activeEvents : {<<>>}]
    /\ locals = NoLocals
    /\ hookLog = <<>>
    /\ submitted = 0
    /\ spawned = <<>>

(* The server calls tickSimulation(state): hooks defaults to {}. *)
Init ==
    /\ InitState
    /\ installed = {}

(* The session layer appends an action to pendingActions between ticks. *)
Submit ==
    /\ state.tick < MaxTick
    /\ submitted < MaxActions
    /\ \E action \in PlayerAction :
          state' = [state EXCEPT !.pendingActions = Append(@, action)]
    /\ submitted' = submitted + 1
    /\ UNCHANGED <<locals, hookLog, installed, spawned>>

(* One call tickSimulation(state, installed). *)
Tick ==
    /\ state.tick < MaxTick
    /\ \E run \in {tickSimulation(state, installed)} :
           /\ state' = run.state
           /\ locals' = run.locals
           /\ hookLog' = run.calls
           /\ spawned' = spawned \o eventIds(run.locals.events)
    /\ UNCHANGED <<submitted, installed>>

Next == Submit \/ Tick

Spec == Init /\ [][Next]_vars

(* The server calls tickSimulation(state, hooks) with a hooks object that *)
(* supplies any combination of persist and broadcast.                     *)
InitHooks ==
    /\ InitState
    /\ state.strain = 0
    /\ state.resources.nutrients = 0
    /\ installed \in SUBSET HookNames

SpecHooks == InitHooks /\ [][Next]_vars

(* The allocation specification: the world starts with the actions of one *)
(* tick already pending, drawn from AllocationActions, and then ticks.    *)
InitAlloc ==
    /\ \E u \in {0, 5000} : \E pending \in SeqsUpTo(AllocationActions, MaxActions) :
          state =
            [tick |-> 0, tier |-> 0,
             metrics |-> [warmth |-> 0, coherence |-> 0, stability |-> 6500],
             resources |-> [energy |-> 0, nutrients |-> 30000],
             organelles |->
                [mito   |-> [capacity |-> 20000, efficiency |-> 10000,
                             utilization |-> u],
                 chloro |-> [capacity |-> 10000, efficiency |-> 5000,
                             utilization |-> 0]],
             strain |-> 0,
             blah |-> 0,
             pendingActions |-> pending,
             activeEvents |-> <<>>]
    /\ locals = NoLocals
    /\ hookLog = <<>>
    /\ submitted = 0
    /\ spawned = <<>>
    /\ installed = {}

SpecAlloc == InitAlloc /\ [][Tick]_vars

----------------------------------------------------------------------------
(* Properties *)

HasEvent(events, type) == \E i \in 1..Len(events) : events[i].type = type

(* Under Next a step that submits no action is a call of tickSimulation. *)
TickStep == submitted' = submitted

(* C1: after every tickSimulation call resources.energy >= 0 and           *)
(* resources.nutrients >= 0, also in ticks where events are applied.       *)
C1_ResourcesNonNegative ==
    locals.called =>
        /\ state.resources.energy >= 0
        /\ state.resources.nutrients >= 0

(* C2: after every tickSimulation call, for any harmony values and any     *)
(* combination of spawned events, coherence and stability are in [0,1].    *)
C2_MetricsBounded ==
    /\ 0 <= state.metrics.coherence /\ state.metrics.coherence <= SCALE
    /\ 0 <= state.metrics.stability /\ state.metrics.stability <= SCALE

C2_Witness ==
    /\ locals.called
    /\ averageHarmony(locals.actions) > SCALE
    /\ HasEvent(locals.events, "festival")
    /\ state.metrics.coherence = SCALE

(* C3: every organelle's utilization stays in [0,1] over any sequence of   *)
(* ticks with any allocations, several per organelle per tick included.    *)
C3_UtilizationBounded ==
    \A id \in DOMAIN state.organelles :
        /\ MIN_UTILIZATION <= state.organelles[id].utilization
        /\ state.organelles[id].utilization <= MAX_UTILIZATION

RECURSIVE AllocationsOn(_, _)
AllocationsOn(actions, id) ==
    IF actions = <<>> THEN 0
    ELSE Cardinality({i \in 1..Len(Head(actions).allocations) :
                         Head(actions).allocations[i].organelle = id})
            + AllocationsOn(Tail(actions), id)

C3_Witness ==
    /\ locals.called
    /\ \E id \in DOMAIN state.organelles :
          /\ AllocationsOn(locals.actions, id) >= 2
          /\ state.organelles[id].utilization = MAX_UTILIZATION
          /\ locals.entry.organelles[id].utilization < MAX_UTILIZATION

(* C4: every tickSimulation call increases tick by exactly 1, whatever     *)
(* actions and events occur; no other step changes tick.                   *)
C4_TickAdvancesByOne ==
    [][/\ TickStep => state'.tick = state.tick + 1
       /\ ~TickStep => state'.tick = state.tick]_vars

C4_Witness ==
    /\ state.tick = 2
    /\ locals.events # <<>>
    /\ locals.actions # <<>>

(* C5: when tickSimulation returns pendingActions is empty, and the        *)
(* actions pending at its start are the ones this tick applied to the      *)
(* organelles and averaged into coherence.                                 *)
C5_PendingDrained ==
    [][TickStep =>
          /\ state'.pendingActions = <<>>
          /\ locals'.actions = state.pendingActions
          /\ state'.organelles =
                 applyAllocationsTo(state.organelles, state.pendingActions)
          /\ locals'.computed.coherence =
                 clamp(averageHarmony(state.pendingActions)
                          + eventBonus(locals'.events), 0, SCALE)]_vars

C5_Witness ==
    /\ locals.called
    /\ Len(locals.actions) = 2
    /\ state.pendingActions = <<>>
    /\ state.organelles # locals.entry.organelles

C7_AnomalyOnFreshStrain ==
    locals.called =>
        (HasEvent(locals.events, "anomaly") <=> locals.strain > 15000)

C9_ActiveEventsReplaced ==
    locals.called =>
        /\ state.activeEvents = locals.events
        /\ \A i \in 1..Len(state.activeEvents) :
               state.activeEvents[i].id[2] = locals.entry.tick

C9_Witness ==
    /\ locals.called
    /\ locals.entry.activeEvents # <<>>
    /\ state.activeEvents = <<>>

ExpectedCalls(s, hooks) ==
    [i \in 1..Cardinality(hooks) |->
        [hook |-> IF i = 1 /\ "persist" \in hooks THEN "persist" ELSE "broadcast",
         state |-> s]]

(* C10: in each tick persist is called once and then broadcast once, each  *)
(* with the final state (tick incremented, pendingActions empty, events    *)
(* applied); a hook not supplied is skipped and the returned state is the  *)
(* same whichever hooks are supplied.                                      *)
C10_HooksAfterUpdates ==
    [][TickStep =>
          /\ hookLog' = ExpectedCalls(state', installed)
          /\ state'.tick = state.tick + 1
          /\ state'.pendingActions = <<>>
          /\ state'.activeEvents = locals'.events
          /\ state' = tickSimulation(state, {}).state]_vars

C10_Witness ==
    /\ Len(hookLog) = 2
    /\ hookLog[1].hook = "persist"
    /\ hookLog[2].hook = "broadcast"
    /\ hookLog[1].state = state
    /\ state.activeEvents # <<>>
    /\ locals.actions # <<>>

(* The allocations of a list that name an organelle of ids. *)
RECURSIVE KnownAllocations(_, _)
KnownAllocations(allocations, ids) ==
    IF allocations = <<>> THEN <<>>
    ELSE (IF Head(allocations).organelle \in ids THEN <<Head(allocations)>> ELSE <<>>)
            \o KnownAllocations(Tail(allocations), ids)

RECURSIVE WithoutUnknown(_, _)
WithoutUnknown(actions, ids) ==
    IF actions = <<>> THEN <<>>
    ELSE <<[Head(actions) EXCEPT !.allocations = KnownAllocations(@, ids)]>>
            \o WithoutUnknown(Tail(actions), ids)

(* All allocations of the actions, in the order the tick applies them. *)
RECURSIVE Flatten(_)
Flatten(actions) ==
    IF actions = <<>> THEN <<>>
    ELSE Head(actions).allocations \o Flatten(Tail(actions))

(* C11: an allocation naming an organelle that is not in state.organelles  *)
(* is ignored: no key is added, and the organelles end as if the unknown   *)
(* allocations had not been submitted, the allocations after them and the  *)
(* rest of the tick included.                                              *)
C11_UnknownOrganelleIgnored ==
    locals.called =>
        /\ DOMAIN state.organelles = DOMAIN locals.entry.organelles
        /\ state.organelles =
               applyAllocationsTo(
                   locals.entry.organelles,
                   WithoutUnknown(locals.actions, DOMAIN locals.entry.organelles))
        /\ state.tick = locals.entry.tick + 1
        /\ state.pendingActions = <<>>

C11_Witness ==
    /\ locals.called
    /\ LET flat == Flatten(locals.actions)
       IN  \E i \in 1..Len(flat) : \E j \in 1..Len(flat) :
              /\ i < j
              /\ flat[i].organelle \notin DOMAIN state.organelles
              /\ flat[j].organelle \in DOMAIN state.organelles
    /\ state.organelles # locals.entry.organelles

RECURSIVE DeltaSum(_, _)
DeltaSum(allocations, id) ==
    IF allocations = <<>> THEN 0
    ELSE (IF Head(allocations).organelle = id
          THEN Head(allocations).utilization ELSE 0)
            + DeltaSum(Tail(allocations), id)

RECURSIVE Reverse(_)
Reverse(q) == IF q = <<>> THEN <<>> ELSE Append(Reverse(Tail(q)), Head(q))

TwoNonNegativeOn(allocations, id) ==
    LET on == KnownAllocations(allocations, {id})
    IN  Len(on) = 2 /\ on[1].utilization >= 0 /\ on[2].utilization >= 0

(* C12: two allocations with non-negative deltas d1, d2 on one organelle   *)
(* at utilization u leave it at min(1, u + d1 + d2), and so does the       *)
(* opposite order.                                                         *)
C12_OrderIndependent ==
    locals.called =>
        \A id \in DOMAIN state.organelles :
            TwoNonNegativeOn(Flatten(locals.actions), id) =>
                LET flat == Flatten(locals.actions)
                    u == locals.entry.organelles[id].utilization
                    expected == Min(MAX_UTILIZATION, u + DeltaSum(flat, id))
                IN  /\ state.organelles[id].utilization = expected
                    /\ applyAllocationList(locals.entry.organelles,
                                           Reverse(flat))[id].utilization = expected

C12_Witness ==
    /\ locals.called
    /\ LET on == KnownAllocations(Flatten(locals.actions), {"mito"})
       IN  /\ Len(on) = 2
           /\ on[1].utilization < on[2].utilization
    /\ locals.entry.organelles["mito"].utilization = 0
    /\ state.organelles["mito"].utilization = MAX_UTILIZATION

(* The nutrient shortfall of the latest tick, before consumeFlows clamps. *)
NutrientDebt ==
    Max(0, 0 - (locals.entry.resources.nutrients + locals.flows.nutrients))

(* C13: the strain a tick stores is 0.6 x previous strain + 0.4 x          *)
(* nutrientDebt + 0.2 x (sum of utilizations after this tick's             *)
(* allocations), the debt taken before consumeFlows clamps nutrients; it   *)
(* is 0.6 x strain when debt and load are 0.                               *)
C13_StrainFormula ==
    locals.called =>
        LET load == utilizationLoadOf(state.organelles, DOMAIN state.organelles)
        IN  /\ state.strain = locals.strain
            /\ state.strain =
                   (locals.entry.strain * 6) \div 10 + (NutrientDebt * 4) \div 10
                      + (load * 2) \div 10
            /\ (NutrientDebt = 0 /\ load = 0) =>
                   state.strain = (locals.entry.strain * 6) \div 10

C13_Witness ==
    /\ locals.called
    /\ NutrientDebt > 0
    /\ locals.consumed.nutrients = 0
    /\ locals.actions # <<>>
    /\ state.organelles # locals.entry.organelles
    /\ state.strain > (locals.entry.strain * 6) \div 10

(* C14: before event impacts are applied the stability a tick writes is    *)
(* clamp(previous stability + 0.4 x coherence' - 0.3 x strain', 0, 1) with *)
(* the coherence and the strain computed in this tick.                     *)
C14_StabilityFormula ==
    locals.called =>
        locals.computed.stability =
            clamp(locals.entry.metrics.stability
                     + (locals.computed.coherence * 4) \div 10
                     - (locals.strain * 3) \div 10,
                  0, SCALE)

C14_Witness ==
    /\ locals.called
    /\ HasEvent(locals.events, "festival")
    /\ locals.computed.coherence # locals.entry.metrics.coherence
    /\ locals.strain # locals.entry.strain
    /\ locals.computed.stability > 0
    /\ locals.computed.stability < SCALE
    /\ locals.computed.stability # locals.entry.metrics.stability

EventTypes(events) == [i \in 1..Len(events) |-> events[i].type]

(* The sequences of event types a tick may produce: at most one of each   *)
(* type, in the order anomaly, festival, repair.                          *)
OrderedTypeLists ==
    {a \o f \o r : a \in {<<>>, <<"anomaly">>},
                    f \in {<<>>, <<"festival">>},
                    r \in {<<>>, <<"repair">>}}

(* C15: a tick spawns a repair if and only if nutrients, after this tick's *)
(* flows were consumed and clamped, are < 1; anomaly, festival and repair  *)
(* may all be spawned in one tick, at most one of each, in that order.     *)
C15_RepairAndIndependence ==
    locals.called =>
        /\ HasEvent(locals.events, "repair") <=> locals.consumed.nutrients < 10000
        /\ EventTypes(locals.events) \in OrderedTypeLists
        /\ \A i \in 1..Len(locals.events) :
               locals.events[i].type = "repair" =>
                  locals.events[i].impact = [nutrients |-> 20000, stability |-> 1000]

C15_Witness ==
    /\ locals.called
    /\ EventTypes(locals.events) = <<"anomaly", "festival", "repair">>
    /\ locals.consumed.nutrients > 0

(* C16: every event spawned in a tick has the id "<type>-<t>", t the tick  *)
(* counter at the start of that tick; the ids of one tick are pairwise     *)
(* distinct and no id is produced twice over any sequence of ticks.        *)
C16_EventIdsUnique ==
    /\ \A i \in 1..Len(spawned) : \A j \in 1..Len(spawned) :
          spawned[i] = spawned[j] => i = j
    /\ locals.called =>
          /\ \A i \in 1..Len(locals.events) :
                 locals.events[i].id = <<locals.events[i].type, locals.entry.tick>>
          /\ \A i \in 1..Len(locals.events) : \A j \in 1..Len(locals.events) :
                 locals.events[i].id = locals.events[j].id => i = j
          /\ state.tick = locals.entry.tick + 1

C16_Witness ==
    /\ locals.called
    /\ Len(locals.events) >= 2
    /\ \E i \in 1..Len(spawned) : \E j \in 1..Len(spawned) :
          /\ spawned[i][1] = spawned[j][1]
          /\ spawned[i][2] < spawned[j][2]

(* C17: no step changes an organelle's capacity or efficiency or the set   *)
(* of keys of state.organelles, whatever actions are pending, allocations  *)
(* to unknown organelles included; only utilization may change.            *)
C17_OrganelleFrame ==
    [][/\ DOMAIN state'.organelles = DOMAIN state.organelles
       /\ \A id \in DOMAIN state.organelles :
             /\ state'.organelles[id].capacity = state.organelles[id].capacity
             /\ state'.organelles[id].efficiency = state.organelles[id].efficiency
             /\ DOMAIN state'.organelles[id] = DOMAIN state.organelles[id]]_vars

C17_Witness ==
    /\ locals.called
    /\ \E i \in 1..Len(locals.actions) :
          /\ locals.actions[i].allocations # <<>>
          /\ locals.actions[i].allocations[1].organelle \notin DOMAIN state.organelles
    /\ state.organelles # locals.entry.organelles

(* ln(1/0.6) - 0.1 (0.4108...), as the model's logarithm computes it: the *)
(* warmth of gain + epsilon = 10 against cost + epsilon = 6.              *)
WarmthCeiling == calculateWarmth(10 * SCALE - 1, 6 * SCALE - 1)

(* C18: from strain >= 0 and utilizations in [0,1] every tick has          *)
(* cost >= 0.6 x gain and strain >= 0, the warmth it writes is below       *)
(* ln(1/0.6) - 0.1 < 0.5, and tier keeps its initial value.                *)
C18_TierUnreachable ==
    /\ state.strain >= 0
    /\ state.tier = 0
    /\ locals.called =>
          /\ locals.cost * 10 >= locals.gain * 6
          /\ state.metrics.warmth = calculateWarmth(locals.gain, locals.cost)
          /\ state.metrics.warmth < WarmthCeiling
          /\ WarmthCeiling < 5000

C18_Witness ==
    /\ state.tick = 2
    /\ state.metrics.stability > 7500
    /\ locals.gain > 0
    /\ state.metrics.warmth > 0
    /\ state.tier = 0

(* C19: after every tick resources.nutrients >= 1: consumeFlows clamps to  *)
(* >= 0, a repair (+2) is spawned and applied in the same tick whenever    *)
(* the clamped value is < 1, and no event takes nutrients away.            *)
C19_NutrientsAtLeastOne ==
    locals.called =>
        /\ state.resources.nutrients >= 10000
        /\ locals.consumed.nutrients >= 0
        /\ state.resources.nutrients =
               locals.consumed.nutrients
                  + (IF locals.consumed.nutrients < 10000 THEN 20000 ELSE 0)
        /\ state.tick >= 2 => locals.entry.resources.nutrients >= 10000

C19_Witness ==
    /\ locals.called
    /\ state.tick = 2
    /\ locals.consumed.nutrients > 0
    /\ locals.consumed.nutrients < 10000
    /\ HasEvent(locals.events, "repair")

(* C20: a coherence impact is counted twice in the tick that spawns it:    *)
(* with a festival the final coherence is                                  *)
(* min(1, clamp(averageHarmony + 0.1, 0, 1) + 0.1), while stability and    *)
(* the composite score are computed from the once-added value.             *)
C20_CoherenceCountedTwice ==
    (locals.called /\ HasEvent(locals.events, "festival")) =>
        LET once == clamp(averageHarmony(locals.actions) + 1000, 0, SCALE)
        IN  /\ locals.computed.coherence = once
            /\ state.metrics.coherence = Min(SCALE, once + 1000)
            /\ locals.computed.stability =
                   clamp(locals.entry.metrics.stability + (once * 4) \div 10
                            - (locals.strain * 3) \div 10, 0, SCALE)
            /\ state.blah =
                   updateBlah([warmth |-> state.metrics.warmth,
                               coherence |-> once,
                               stability |-> locals.computed.stability],
                              locals.entry.blah)

C20_Witness ==
    /\ locals.called
    /\ HasEvent(locals.events, "festival")
    /\ locals.actions # <<>>
    /\ state.metrics.coherence = locals.computed.coherence + 1000
    /\ state.metrics.coherence < SCALE

====
